---- MODULE Spec2Model ----
(***************************************************************************)
(* Model of the browser-extension popup (src/browser-extension/popup/      *)
(* index.tsx): the credential store, the clipboard image source, the       *)
(* recognition and translation clients and the Popup component with its    *)
(* asynchronous handler handleScreenshotTranslate.                         *)
(*                                                                         *)
(* Strings that the code trims are sequences of characters; JSON values    *)
(* are tagged records; a missing value (null) is the empty tuple.          *)
(***************************************************************************)
EXTENDS Integers, Sequences, FiniteSets, TLC

(* ---------------------------- bounds ----------------------------------- *)
MaxLen == 3        \* longest text typed into the settings input (SpecCredential)
KeyLen == 1        \* longest text typed into the settings input (Spec)
MaxRuns == 2       \* number of triggers explored
MaxItems == 2      \* clipboard entries per read
MaxTypes == 2      \* type tags per clipboard entry

(* ---------------------------- strings ---------------------------------- *)
Chars == {"k", " "}

Strings(n) == UNION {[1..k -> Chars] : k \in 0..n}

IsWhitespace(c) == c = " "

RECURSIVE TrimStart(_)
TrimStart(s) ==
  IF s = <<>> THEN s
  ELSE IF IsWhitespace(Head(s)) THEN TrimStart(Tail(s)) ELSE s

RECURSIVE TrimEnd(_)
TrimEnd(s) ==
  IF s = <<>> THEN s
  ELSE IF IsWhitespace(s[Len(s)]) THEN TrimEnd(SubSeq(s, 1, Len(s) - 1)) ELSE s

\* String.prototype.trim
Trim(s) == TrimEnd(TrimStart(s))

(* ------------------------- user-visible texts -------------------------- *)
NO_KEY_TEXT == "no Gemini API key"          \* line 15
NOT_RECOGNIZED == "not recognized"          \* line 50
TRANSLATION_FAILED == "translation failed"  \* line 91
UNDEFINED == "<undefined>"                  \* the JavaScript value undefined

ALERT_MISSING_KEY == "MissingCredential"        \* line 122
ALERT_NO_IMAGE == "NoClipboardImage"            \* line 131
ALERT_CLIPBOARD_FAILED == "ClipboardAccessDenied" \* line 77
ALERT_SAVED == "KeySaved"                       \* line 154

(* ------------------------------ JSON ----------------------------------- *)
JNull == [t |-> "null"]
JUndef == [t |-> "undefined"]
JStr(s) == [t |-> "string", s |-> s]
JArr(items) == [t |-> "array", items |-> items]
JObj(f) == [t |-> "object", f |-> f]
NoFields == <<>>

\* JavaScript truthiness of a JSON value
Truthy(v) ==
  /\ v.t \notin {"null", "undefined"}
  /\ ~(v.t = "string" /\ v.s = "")

\* reading a property of null or undefined raises a TypeError
Readable(v) == v.t \notin {"null", "undefined"}

\* v.name for a readable v
Prop(v, name) ==
  IF v.t = "object" /\ name \in DOMAIN v.f THEN v.f[name] ELSE JUndef

\* v[0] for a readable v
First(v) ==
  IF v.t = "array" /\ Len(v.items) > 0 THEN v.items[1] ELSE JUndef

Returned(s) == [threw |-> FALSE, val |-> s]
Thrown == [threw |-> TRUE, val |-> ""]

\* a string-valued JSON node as the text the component stores
TextOf(v) == IF v.t = "string" THEN v.s ELSE UNDEFINED

(* ------------------------ ClipboardImageSource ------------------------- *)
\* a MIME type tag is <<type, subtype>>; a clipboard entry is its list of tags
MimeTypes == {<<"text", "plain">>, <<"image", "png">>, <<"image", "jpeg">>}

SeqsUpTo(S, n) == UNION {[1..k -> S] : k \in 0..n}

ClipboardContents == SeqsUpTo(SeqsUpTo(MimeTypes, MaxTypes), MaxItems)

\* a prefix test that also lets text tags through
StartsWithAnyType(type) == type[1] \in {"image", "text"}

\* type.startsWith("image/")
StartsWithImage(type) == type[1] = "image"

NoBlob == <<>>

\* the payload of tag `type` of entry i
BlobOf(i, type) == <<i, type>>

\* lines 69-74: the first tag of `types`, from position j on, that is an image
RECURSIVE ScanTypes(_, _)
ScanTypes(types, j) ==
  IF j > Len(types) THEN 0
  ELSE IF StartsWithImage(types[j]) THEN j ELSE ScanTypes(types, j + 1)

\* a scan that looks at the first entry only
ScanItemsFirstOnly(items, i) ==
  IF i > Len(items) \/ ScanTypes(items[i], 1) = 0 THEN <<>>
  ELSE <<i, items[i][ScanTypes(items[i], 1)]>>

\* lines 68-75: the (entry, tag) the loops stop at, <<>> when they run out
RECURSIVE ScanItems(_, _)
ScanItems(items, i) ==
  IF i > Len(items) THEN <<>>
  ELSE IF ScanTypes(items[i], 1) # 0
       THEN <<i, items[i][ScanTypes(items[i], 1)]>>
       ELSE ScanItems(items, i + 1)

\* some tag of some entry is an image type
HoldsImage(items) ==
  \E i \in 1..Len(items) : \E j \in 1..Len(items[i]) : items[i][j][1] = "image"

\* what a call keeps of a clipboard it has read: whether it held an image
\* tag, and where the loops of lines 68-75 stopped
ReadOutcome(items) == [holds |-> HoldsImage(items), found |-> ScanItems(items, 1)]

ReadOutcomes == {ReadOutcome(items) : items \in ClipboardContents}

(* --------------------------- RecognitionClient ------------------------- *)
FetchRejected == [t |-> "rejected"]     \* fetch() rejects: transport failure
BodyNotJson == [t |-> "notjson"]        \* response.json() rejects

Part(text) == JObj([text |-> text])
Candidates(parts) ==
  JObj([candidates |-> JArr(<<JObj([content |-> JObj([parts |-> parts])])>>)])

RecognitionResponses ==
  << FetchRejected,
     BodyNotJson,
     JNull,
     JObj(NoFields),
     JObj([candidates |-> JArr(<<>>)]),
     JObj([candidates |-> JArr(<<JObj(NoFields)>>)]),
     JObj([candidates |-> JArr(<<JObj([content |-> JObj(NoFields)])>>)]),
     Candidates(JArr(<<>>)),
     Candidates(JArr(<<JObj(NoFields)>>)),
     Candidates(JArr(<<Part(JStr(""))>>)),
     Candidates(JArr(<<Part(JStr("Hello"))>>)) >>

IsJson(resp) == resp.t \notin {"rejected", "notjson"}

\* lines 40-50: the value recognizeImageWithGemini returns for the body `data`
RecognizedFrom(data) ==
  IF ~Truthy(data) THEN Returned(NOT_RECOGNIZED)
  ELSE IF ~Truthy(Prop(data, "candidates")) THEN Returned(NOT_RECOGNIZED)
  ELSE IF ~Truthy(First(Prop(data, "candidates"))) THEN Returned(NOT_RECOGNIZED)
  ELSE LET content == Prop(First(Prop(data, "candidates")), "content") IN
    IF ~Truthy(content) THEN Returned(NOT_RECOGNIZED)
    ELSE IF ~Truthy(Prop(content, "parts")) THEN Returned(NOT_RECOGNIZED)
    ELSE IF ~Readable(First(Prop(content, "parts"))) THEN Thrown
    ELSE IF ~Truthy(Prop(First(Prop(content, "parts")), "text"))
         THEN Returned(NOT_RECOGNIZED)
    ELSE Returned(TextOf(Prop(First(Prop(content, "parts")), "text")))

\* lines 39-50: awaiting fetch and response.json(), then the extraction
RecognitionResult(resp) == IF IsJson(resp) THEN RecognizedFrom(resp) ELSE Thrown

(* --------------------------- TranslationClient ------------------------- *)
Entry(f) == JObj([translateResult |-> JArr(<<JArr(<<JObj(f)>>)>>)])

TranslationResponses ==
  << FetchRejected,
     BodyNotJson,
     JNull,
     JObj(NoFields),
     JObj([translateResult |-> JArr(<<>>)]),
     JObj([translateResult |-> JArr(<<JArr(<<>>)>>)]),
     Entry(NoFields),
     Entry([tgt |-> JStr("")]),
     Entry([tgt |-> JStr("NiHao")]) >>

\* lines 88-91: the value translateText returns for the body `data`
TranslatedFrom(data) ==
  IF ~Truthy(data) THEN Returned(TRANSLATION_FAILED)
  ELSE IF ~Truthy(Prop(data, "translateResult")) THEN Returned(TRANSLATION_FAILED)
  ELSE IF ~Truthy(First(Prop(data, "translateResult")))
       THEN Returned(TRANSLATION_FAILED)
  ELSE IF ~Truthy(First(First(Prop(data, "translateResult"))))
       THEN Returned(TRANSLATION_FAILED)
  ELSE Returned(TextOf(Prop(First(First(Prop(data, "translateResult"))), "tgt")))

\* lines 84-91
TranslationResult(resp) == IF IsJson(resp) THEN TranslatedFrom(resp) ELSE Thrown

(* ------------------------------- state --------------------------------- *)
VARIABLES
  storage,          \* localStorage[GEMINI_KEY_STORAGE]: <<>> (no item) or <<value>>
  mounted,          \* the mount effect (lines 107-111) has run
  tab,              \* useState tab
  imageSrc,         \* useState imageSrc: <<>> (null) or <<object URL number, blob>>
  recognizedText,   \* useState recognizedText
  translatedText,   \* useState translatedText
  loading,          \* useState loading
  apiKey,           \* useState apiKey
  apiKeyInput,      \* useState apiKeyInput
  objectUrls,       \* number of object URLs created so far
  alert,            \* the alert() shown most recently, "" when none was
  nRuns,            \* number of calls of handleScreenshotTranslate so far
  run,              \* the calls of handleScreenshotTranslate: position and locals
  wrote,            \* history: which call last set each of the three fields
  ignoredClick      \* history: the disabled trigger was clicked since the last call

vars == <<storage, mounted, tab, imageSrc, recognizedText, translatedText,
          loading, apiKey, apiKeyInput, objectUrls, alert, nRuns, run, wrote,
          ignoredClick>>

fields == <<imageSrc, recognizedText, translatedText, wrote, objectUrls>>
credential == <<storage, apiKey, apiKeyInput>>

Runs == 1..MaxRuns

\* a call of handleScreenshotTranslate: pc is the await it is suspended at
NoRun ==
  [ pc |-> "idle",        \* idle, clipboard, getType, encode, recognize,
                          \* translate, done (returned), failed (threw)
    apiKey |-> <<>>,      \* apiKey as captured by the handler's closure
    found |-> <<>>,       \* getImageFromClipboard: the (entry, tag) it stopped at
    imageBlob |-> NoBlob, \* const imageBlob
    text |-> "",          \* const text
    notices |-> {},       \* the alerts this call has raised
    clip |-> "",          \* how its clipboard read went
    hasImage |-> FALSE,   \* the clipboard it read held an image tag
    items |-> <<>>,       \* the entries read() resolved with, where they are kept
    reads |-> 0,          \* navigator.clipboard.read() calls
    recReqs |-> <<>>,     \* recognition requests issued: <<blob, key>>
    trReqs |-> <<>>,      \* translation requests issued: the text
    recResp |-> 0,        \* index of the recognition response received
    trResp |-> 0 ]        \* index of the translation response received

InFlight(c) == c.pc \in {"clipboard", "getType", "encode", "recognize", "translate"}
Ended(c) == c.pc \in {"done", "failed"}

\* what the user sees of the pipeline
ImageShown == IF imageSrc = <<>> THEN NoBlob ELSE imageSrc[2]

\* loadGeminiApiKey, lines 9-11
LoadGeminiApiKey == IF storage = <<>> THEN <<>> ELSE storage[1]

\* the values saveGeminiApiKey can have left in the store
StoredKeys(n) == {<<>>} \cup {<<Trim(s)>> : s \in Strings(n)}

InitFrom(keys) ==
  /\ storage \in keys
  /\ mounted = FALSE
  /\ tab = "main"
  /\ imageSrc = <<>>
  /\ recognizedText = ""
  /\ translatedText = ""
  /\ loading = FALSE
  /\ apiKey = <<>>
  /\ apiKeyInput = <<>>
  /\ objectUrls = 0
  /\ alert = ""
  /\ nRuns = 0
  /\ run = [r \in Runs |-> NoRun]
  /\ wrote = [image |-> 0, recognized |-> 0, translated |-> 0]
  /\ ignoredClick = FALSE

Init == InitFrom(StoredKeys(KeyLen))

\* a mount effect that does not read the store
MountNoLoad ==
  /\ ~mounted
  /\ mounted' = TRUE
  /\ UNCHANGED <<credential, tab, loading, alert, nRuns, run, ignoredClick,
                 fields>>

\* lines 107-111
Mount ==
  /\ ~mounted
  /\ mounted' = TRUE
  /\ apiKey' = LoadGeminiApiKey
  /\ apiKeyInput' = LoadGeminiApiKey
  /\ UNCHANGED <<storage, tab, loading, alert, nRuns, run, ignoredClick,
                 fields>>

(* ----------------------- handleScreenshotTranslate --------------------- *)
\* the records of calls that have ended are garbage once a new call starts
Retired == [q \in Runs |-> IF Ended(run[q]) THEN [NoRun EXCEPT !.pc = "retired"]
                                             ELSE run[q]]

\* the trigger button without its disabled attribute
TriggerRendered == mounted /\ tab = "main"

\* lines 160-165: the trigger button is rendered and not disabled; React
\* commits setLoading(true) before the click event that set it is over, so
\* the attribute is in place before any later click
TriggerEnabled == mounted /\ tab = "main" /\ ~loading

\* a credential check that never fires
MissingKeyNever(key) == FALSE

\* line 120: !apiKey
MissingKey(key) == key = <<>>

\* a reset that forgets setImageSrc(null)
ResetTextsOnly ==
  /\ recognizedText' = ""
  /\ translatedText' = ""
  /\ wrote' = [wrote EXCEPT !.recognized = 0, !.translated = 0]
  /\ UNCHANGED imageSrc

\* lines 116-118
ResetFields ==
  /\ recognizedText' = ""
  /\ translatedText' = ""
  /\ imageSrc' = <<>>
  /\ wrote' = [image |-> 0, recognized |-> 0, translated |-> 0]

\* lines 114-128: a click on the trigger, up to the first await
HandleScreenshotTranslate ==
  /\ TriggerEnabled
  /\ nRuns < MaxRuns
  /\ nRuns' = nRuns + 1
  /\ ResetFields
  /\ ignoredClick' = FALSE
  /\ IF MissingKey(apiKey)
     THEN /\ loading' = FALSE
          /\ alert' = ALERT_MISSING_KEY
          /\ tab' = "settings"
          /\ run' = [Retired EXCEPT ![nRuns + 1] =
                       [NoRun EXCEPT !.pc = "done", !.apiKey = apiKey,
                                     !.notices = {ALERT_MISSING_KEY}]]
     ELSE /\ loading' = TRUE
          /\ run' = [Retired EXCEPT ![nRuns + 1] =
                       [NoRun EXCEPT !.pc = "clipboard", !.apiKey = apiKey,
                                     !.reads = 1]]
          /\ UNCHANGED <<alert, tab>>
  /\ UNCHANGED <<credential, mounted, objectUrls>>

\* lines 129-133: imageBlob is null
NoImageReturn(r, c) ==
  /\ loading' = FALSE
  /\ alert' = ALERT_NO_IMAGE
  /\ run' = [run EXCEPT ![r] = [c EXCEPT !.pc = "done",
                                         !.notices = @ \cup {ALERT_NO_IMAGE}]]
  /\ UNCHANGED <<credential, mounted, tab, nRuns, ignoredClick, fields>>

\* lines 76-79 then 129-133: clipboard.read() is missing or rejects
ClipboardReadRejected(r) ==
  /\ run[r].pc = "clipboard"
  /\ NoImageReturn(r, [run[r] EXCEPT !.clip = "denied",
                                    !.notices = @ \cup {ALERT_CLIPBOARD_FAILED}])

\* lines 67-75 (then 129-133 when the loops find nothing): read() resolves
\* with a clipboard whose outcome is `read`
ClipboardReadResolved(r, read) ==
  /\ run[r].pc = "clipboard"
  /\ LET c == [run[r] EXCEPT !.clip = "read", !.hasImage = read.holds,
                             !.found = read.found]
     IN IF c.found = <<>>
        THEN NoImageReturn(r, c)
        ELSE /\ run' = [run EXCEPT ![r] = [c EXCEPT !.pc = "getType"]]
             /\ UNCHANGED <<credential, mounted, tab, loading, alert, nRuns,
                            ignoredClick, fields>>

\* ClipboardReadResolved for the clipboard `items`, which the call's record keeps
ClipboardItemsRead(r, items) ==
  /\ run[r].pc = "clipboard"
  /\ LET c == [run[r] EXCEPT !.clip = "read", !.hasImage = HoldsImage(items),
                             !.found = ScanItems(items, 1), !.items = items]
     IN IF c.found = <<>>
        THEN NoImageReturn(r, c)
        ELSE /\ run' = [run EXCEPT ![r] = [c EXCEPT !.pc = "getType"]]
             /\ UNCHANGED <<credential, mounted, tab, loading, alert, nRuns,
                            ignoredClick, fields>>

\* lines 71, 76-79 then 129-133: item.getType(type) rejects
GetTypeRejected(r) ==
  /\ run[r].pc = "getType"
  /\ NoImageReturn(r, [run[r] EXCEPT !.clip = "getTypeRejected",
                                    !.notices = @ \cup {ALERT_CLIPBOARD_FAILED}])

\* a translation request that carries the text of an earlier render
StartTranslationStale(c, text) ==
  [c EXCEPT !.pc = "translate", !.text = text, !.trReqs = Append(@, recognizedText)]

\* a translation call that sends its request a second time
StartTranslationTwice(c, text) ==
  [c EXCEPT !.pc = "translate", !.text = text,
            !.trReqs = Append(Append(@, text), text)]

\* lines 144: translateText(text) up to its fetch
StartTranslation(c, text) ==
  [c EXCEPT !.pc = "translate", !.text = text, !.trReqs = Append(@, text)]

\* lines 71-72, 128, 135-140 and 15-16: item.getType(type) resolves
GetTypeResolved(r) ==
  /\ run[r].pc = "getType"
  /\ LET blob == BlobOf(run[r].found[1], run[r].found[2])
         c == [run[r] EXCEPT !.imageBlob = blob]
     IN /\ objectUrls' = objectUrls + 1
        /\ imageSrc' = <<objectUrls + 1, blob>>
        /\ IF c.apiKey = <<>>
           THEN /\ recognizedText' = NO_KEY_TEXT
                /\ wrote' = [wrote EXCEPT !.image = r, !.recognized = r]
                /\ run' = [run EXCEPT ![r] = StartTranslation(c, NO_KEY_TEXT)]
           ELSE /\ run' = [run EXCEPT ![r] = [c EXCEPT !.pc = "encode"]]
                /\ wrote' = [wrote EXCEPT !.image = r]
                /\ UNCHANGED recognizedText
  /\ UNCHANGED <<credential, mounted, tab, loading, alert, nRuns, ignoredClick,
                 translatedText>>

\* a recognition request that reads the key of the latest render
EncodeResolvedLatestKey(r) ==
  /\ run[r].pc = "encode"
  /\ run' = [run EXCEPT ![r] = [@ EXCEPT !.pc = "recognize",
                 !.recReqs = Append(@, <<run[r].imageBlob, apiKey>>)]]
  /\ UNCHANGED <<credential, mounted, tab, loading, alert, nRuns, ignoredClick,
                 fields>>

\* lines 16-38: blobToBase64 resolves and the recognition request is sent
EncodeResolved(r) ==
  /\ run[r].pc = "encode"
  /\ run' = [run EXCEPT ![r] = [@ EXCEPT !.pc = "recognize",
                 !.recReqs = Append(@, <<run[r].imageBlob, run[r].apiKey>>)]]
  /\ UNCHANGED <<credential, mounted, tab, loading, alert, nRuns, ignoredClick,
                 fields>>

\* lines 16, 58: the FileReader fails, the rejection leaves the handler
EncodeRejected(r) ==
  /\ run[r].pc = "encode"
  /\ run' = [run EXCEPT ![r] = [@ EXCEPT !.pc = "failed"]]
  /\ UNCHANGED <<credential, mounted, tab, loading, alert, nRuns, ignoredClick,
                 fields>>

\* lines 17, 39-50, 140-144: the recognition call settles with response i
RecognitionResponse(r, i) ==
  /\ run[r].pc = "recognize"
  /\ LET res == RecognitionResult(RecognitionResponses[i])
         c == [run[r] EXCEPT !.recResp = i]
     IN IF res.threw
        THEN /\ run' = [run EXCEPT ![r] = [c EXCEPT !.pc = "failed"]]
             /\ UNCHANGED <<recognizedText, wrote>>
        ELSE /\ recognizedText' = res.val
             /\ wrote' = [wrote EXCEPT !.recognized = r]
             /\ run' = [run EXCEPT ![r] = StartTranslation(c, res.val)]
  /\ UNCHANGED <<credential, mounted, tab, loading, alert, nRuns, ignoredClick,
                 imageSrc, translatedText, objectUrls>>

\* lines 84-91, 144-147: the translation call settles with response i
TranslationResponse(r, i) ==
  /\ run[r].pc = "translate"
  /\ UNCHANGED <<credential, mounted, tab, alert, nRuns, ignoredClick,
                 imageSrc, recognizedText, objectUrls>>
  /\ LET res == TranslationResult(TranslationResponses[i])
         c == [run[r] EXCEPT !.trResp = i]
     IN IF res.threw
        THEN /\ run' = [run EXCEPT ![r] = [c EXCEPT !.pc = "failed"]]
             /\ UNCHANGED <<translatedText, wrote, loading>>
        ELSE /\ translatedText' = res.val
             /\ wrote' = [wrote EXCEPT !.translated = r]
             /\ loading' = FALSE
             /\ run' = [run EXCEPT ![r] = [c EXCEPT !.pc = "done"]]

(* ------------------------------- the views ----------------------------- *)
\* line 168
OpenSettings ==
  /\ mounted /\ tab = "main"
  /\ tab' = "settings"
  /\ UNCHANGED <<credential, mounted, loading, alert, nRuns, run, ignoredClick,
                 fields>>

\* a Back that mounts the main view afresh, dropping its results
BackToMainRemounting ==
  /\ mounted /\ tab = "settings"
  /\ tab' = "main"
  /\ ResetFields
  /\ UNCHANGED <<credential, mounted, loading, alert, nRuns, run, ignoredClick,
                 objectUrls>>

\* line 214
BackToMain ==
  /\ mounted /\ tab = "settings"
  /\ tab' = "main"
  /\ UNCHANGED <<credential, mounted, loading, alert, nRuns, run, ignoredClick,
                 fields>>

\* line 208
SetApiKeyInput(s) ==
  /\ mounted /\ tab = "settings"
  /\ s # apiKeyInput
  /\ apiKeyInput' = s
  /\ UNCHANGED <<storage, apiKey, mounted, tab, loading, alert, nRuns, run,
                 ignoredClick, fields>>

\* saveGeminiApiKey, lines 6-8
SaveGeminiApiKey(key) == storage' = <<key>>

\* a save that stores the input as typed
HandleSaveKeyUntrimmed ==
  /\ mounted /\ tab = "settings"
  /\ SaveGeminiApiKey(apiKeyInput)
  /\ apiKey' = apiKeyInput
  /\ alert' = ALERT_SAVED
  /\ tab' = "main"
  /\ UNCHANGED <<apiKeyInput, mounted, loading, nRuns, run, ignoredClick,
                 fields>>

\* a save that persists the key and leaves the component's own copy alone
HandleSaveKeyStoreOnly ==
  /\ mounted /\ tab = "settings"
  /\ SaveGeminiApiKey(Trim(apiKeyInput))
  /\ alert' = ALERT_SAVED
  /\ tab' = "main"
  /\ UNCHANGED <<apiKey, apiKeyInput, mounted, loading, nRuns, run,
                 ignoredClick, fields>>

\* lines 151-156
HandleSaveKey ==
  /\ mounted /\ tab = "settings"
  /\ SaveGeminiApiKey(Trim(apiKeyInput))
  /\ apiKey' = Trim(apiKeyInput)
  /\ alert' = ALERT_SAVED
  /\ tab' = "main"
  /\ UNCHANGED <<apiKeyInput, mounted, loading, nRuns, run, ignoredClick,
                 fields>>

\* line 163: a click on the trigger while it is disabled reaches no handler
ClickDisabledTrigger ==
  /\ mounted /\ tab = "main" /\ loading
  /\ ~ignoredClick
  /\ ignoredClick' = TRUE
  /\ UNCHANGED <<credential, mounted, tab, loading, alert, nRuns, run, fields>>

(* ---------------------------- specification ---------------------------- *)
Next ==
  \/ Mount
  \/ HandleScreenshotTranslate
  \/ \E r \in Runs : ClipboardReadRejected(r)
  \/ \E r \in Runs : \E read \in ReadOutcomes : ClipboardReadResolved(r, read)
  \/ \E r \in Runs : GetTypeRejected(r)
  \/ \E r \in Runs : GetTypeResolved(r)
  \/ \E r \in Runs : EncodeResolved(r)
  \/ \E r \in Runs : EncodeRejected(r)
  \/ \E r \in Runs : \E i \in 1..Len(RecognitionResponses) : RecognitionResponse(r, i)
  \/ \E r \in Runs : \E i \in 1..Len(TranslationResponses) : TranslationResponse(r, i)
  \/ OpenSettings
  \/ BackToMain
  \/ \E s \in Strings(KeyLen) : SetApiKeyInput(s)
  \/ HandleSaveKey
  \/ ClickDisabledTrigger

Spec == Init /\ [][Next]_vars

\* the credential store and the settings view alone, over longer texts
InitCredential == InitFrom(StoredKeys(MaxLen))

NextCredential ==
  \/ Mount
  \/ OpenSettings
  \/ BackToMain
  \/ \E s \in Strings(MaxLen) : SetApiKeyInput(s)
  \/ HandleSaveKey

SpecCredential == InitCredential /\ [][NextCredential]_vars

\* getImageFromClipboard alone, over every clipboard: a key is stored, so that
\* each call gets to line 128, and the call's record keeps the entries it read
InitCapture == InitFrom({<<<<"k">>>>})

NextCapture ==
  \/ Mount
  \/ HandleScreenshotTranslate
  \/ \E r \in Runs : ClipboardReadRejected(r)
  \/ \E r \in Runs :
       /\ run[r].pc = "clipboard"
       /\ \E items \in ClipboardContents : ClipboardItemsRead(r, items)
  \/ \E r \in Runs : GetTypeRejected(r)
  \/ \E r \in Runs : GetTypeResolved(r)

SpecCapture == InitCapture /\ [][NextCapture]_vars

(* ------------------------------- claims -------------------------------- *)
NoRequests(c) == c.recReqs = <<>> /\ c.trReqs = <<>>
FieldsUnset == imageSrc = <<>> /\ recognizedText = "" /\ translatedText = ""

\* C1: a call made while the in-memory credential is empty returns at once:
\* it has read no clipboard and sent no request, it has raised the
\* MissingCredential notice, the view is Settings, loading is false and the
\* image, recognized-text and translated-text fields are unset; having
\* returned, it does nothing more.
C1_MissingCredentialStops ==
  [][ /\ (nRuns' = nRuns + 1 /\ apiKey = <<>>) =>
           /\ run'[nRuns'].pc = "done"
           /\ run'[nRuns'].reads = 0
           /\ NoRequests(run'[nRuns'])
           /\ run'[nRuns'].notices = {ALERT_MISSING_KEY}
           /\ alert' = ALERT_MISSING_KEY
           /\ tab' = "settings"
           /\ ~loading'
           /\ FieldsUnset'
      /\ \A r \in Runs :
           (run[r].pc = "done" /\ run[r].apiKey = <<>>) =>
              /\ run'[r].reads = 0 /\ NoRequests(run'[r])
              /\ nRuns' = nRuns => (run'[r] = run[r] /\ FieldsUnset' /\ ~loading')
    ]_vars

C1_Witness ==
  /\ nRuns > 0
  /\ run[nRuns].pc = "done" /\ run[nRuns].apiKey = <<>>
  /\ ALERT_MISSING_KEY \in run[nRuns].notices
  /\ tab = "settings" /\ ~loading /\ FieldsUnset

\* C2: a call with a non-empty credential whose clipboard read succeeded
\* and held no image tag sends no request, raises the NoClipboardImage
\* notice and returns with loading false and the three fields unset.
C2_NoImageStops ==
  \A r \in Runs :
    (run[r].apiKey # <<>> /\ run[r].clip = "read" /\ ~run[r].hasImage) =>
       /\ run[r].pc = "done"
       /\ NoRequests(run[r])
       /\ ALERT_NO_IMAGE \in run[r].notices
       /\ ~loading
       /\ FieldsUnset

C2_Witness ==
  /\ nRuns > 0
  /\ run[nRuns].apiKey # <<>> /\ run[nRuns].clip = "read" /\ ~run[nRuns].hasImage
  /\ run[nRuns].pc = "done" /\ alert = ALERT_NO_IMAGE /\ ~loading

\* C3: a call whose clipboard read is denied or unsupported raises the
\* ClipboardAccessDenied notice and sends no request, and the
\* NoClipboardImage notice is raised only by calls whose read succeeded and
\* held no image, never by a call whose read was denied.
C3_DeniedNotCollapsed ==
  \A r \in Runs :
    /\ run[r].clip = "denied" =>
         /\ ALERT_CLIPBOARD_FAILED \in run[r].notices
         /\ NoRequests(run[r])
         /\ ALERT_NO_IMAGE \notin run[r].notices
    /\ ALERT_NO_IMAGE \in run[r].notices =>
         (run[r].clip = "read" /\ ~run[r].hasImage)

\* C4: whatever the clipboard read, the recognition call and the translation
\* call come to, the controller is not left with loading = true: whenever
\* no call is awaiting an outcome any more, loading is false.
C4_NeverStuckLoading ==
  (\A r \in Runs : ~InFlight(run[r])) => ~loading

\* the node at candidates[0].content.parts[0].text, undefined when a link is absent
RecognizedNode(data) ==
  Prop(First(Prop(Prop(First(Prop(data, "candidates")), "content"), "parts")), "text")

\* the node at translateResult[0][0].tgt, undefined when a link is absent
TranslatedNode(data) == Prop(First(First(Prop(data, "translateResult"))), "tgt")

RecognitionFailed(c) == c.pc = "failed" /\ c.recResp # 0 /\ c.trResp = 0

\* C5: for every response body, recognize returns the text at
\* candidates[0].content.parts[0].text when that is a non-empty text and
\* the "not recognized" sentinel when any link of the path is absent or the
\* text is empty; it never fails its caller.
C5_RecognizeNeverFails ==
  \A r \in Runs :
    (run[r].recResp # 0 /\ IsJson(RecognitionResponses[run[r].recResp])) =>
       /\ ~RecognitionFailed(run[r])
       /\ run[r].text =
            IF Truthy(RecognizedNode(RecognitionResponses[run[r].recResp]))
            THEN TextOf(RecognizedNode(RecognitionResponses[run[r].recResp]))
            ELSE NOT_RECOGNIZED

\* C6: for every response body, translate returns the text at
\* translateResult[0][0].tgt or, when a link of the path is absent, the
\* "translation failed" sentinel, so the translated-text field always holds
\* a defined string.
C6_TranslateReturnsText ==
  \A r \in Runs :
    (run[r].trResp # 0 /\ IsJson(TranslationResponses[run[r].trResp])) =>
       /\ run[r].pc = "done"
       /\ translatedText # UNDEFINED
       /\ translatedText =
            IF TranslatedNode(TranslationResponses[run[r].trResp]).t = "string"
            THEN TranslatedNode(TranslationResponses[run[r].trResp]).s
            ELSE TRANSLATION_FAILED

LacksCandidates(resp) ==
  IsJson(resp) /\ ~(resp.t = "object" /\ "candidates" \in DOMAIN resp.f)

\* C7: a call that captured an image and whose recognition response lacks
\* `candidates` stores the "not recognized" sentinel in the recognized-text
\* field, calls translate with exactly that text, and ends returned with
\* loading false.
C7_SentinelStillTranslated ==
  \A r \in Runs :
    (run[r].recResp # 0 /\ LacksCandidates(RecognitionResponses[run[r].recResp])) =>
       /\ recognizedText = NOT_RECOGNIZED
       /\ run[r].trReqs = <<NOT_RECOGNIZED>>
       /\ ~InFlight(run[r]) => (run[r].pc = "done" /\ ~loading)

Writers == {wrote.image, wrote.recognized, wrote.translated} \ {0}

\* C8: when a second trigger arrives before the first call has come to an
\* end, the image, recognized-text and translated-text fields that are set
\* all come from one call, and that call is the latest one made: no call
\* writes a response into fields that a later call has reset or populated.
C8_FieldsFromOneRun ==
  /\ Cardinality(Writers) <= 1
  /\ \A w \in Writers : w = nRuns
  /\ (wrote.image = 0) = (imageSrc = <<>>)
  /\ wrote.recognized = 0 => recognizedText = ""
  /\ wrote.translated = 0 => translatedText = ""

C8_Witness ==
  /\ ignoredClick
  /\ nRuns > 0 /\ run[nRuns].pc = "done"
  /\ Writers = {nRuns}
  /\ wrote.translated = nRuns

\* t is x without its leading and trailing whitespace
IsTrimOf(t, x) ==
  /\ t # <<>> => (~IsWhitespace(t[1]) /\ ~IsWhitespace(t[Len(t)]))
  /\ \E a \in 0..Len(x) : \E b \in 0..Len(x) :
       /\ a + Len(t) + b = Len(x)
       /\ \A n \in 1..a : IsWhitespace(x[n])
       /\ \A n \in 1..Len(t) : x[a + n] = t[n]
       /\ \A n \in 1..b : IsWhitespace(x[a + Len(t) + n])

\* C9: after the save action on any input text x, load() returns x without
\* its leading and trailing whitespace; while nothing has been saved, load()
\* returns the empty string, which is what the mount effect puts into the
\* in-memory credential.
C9_SaveLoadRoundTrip ==
  [][ /\ HandleSaveKey => IsTrimOf(LoadGeminiApiKey', apiKeyInput)
      /\ storage' = <<>> => LoadGeminiApiKey' = <<>>
      /\ (storage' = <<>> /\ mounted') => apiKey' = <<>>
    ]_vars

C9_Witness ==
  /\ alert = ALERT_SAVED /\ tab = "main"
  /\ Len(apiKeyInput) > 1
  /\ IsWhitespace(apiKeyInput[1]) \/ IsWhitespace(apiKeyInput[Len(apiKeyInput)])
  /\ storage # <<>>
  /\ LoadGeminiApiKey # apiKeyInput
  /\ IsTrimOf(LoadGeminiApiKey, apiKeyInput)

Returns(r) == run[r].pc # "done" /\ run'[r].pc = "done"

\* C10: the observable state in which a call returns (view, loading, image,
\* recognized text, translated text, notices) is determined by that call's
\* own credential, clipboard outcome and service responses, and by nothing
\* an earlier call left behind; so a call repeated with the same inputs
\* returns in the same observable state.
C10_OutcomeFromInputsOnly ==
  [][ \A r \in Runs : Returns(r) =>
        LET c == run'[r] IN
        /\ ~loading'
        /\ tab' = IF c.apiKey = <<>> THEN "settings" ELSE tab
        /\ imageSrc' # <<>> <=> (c.clip = "read" /\ c.found # <<>>)
        /\ imageSrc' # <<>> => imageSrc'[2] = BlobOf(c.found[1], c.found[2])
        /\ recognizedText' =
             IF c.recResp = 0 THEN ""
             ELSE RecognitionResult(RecognitionResponses[c.recResp]).val
        /\ translatedText' =
             IF c.trResp = 0 THEN ""
             ELSE TranslationResult(TranslationResponses[c.trResp]).val
        /\ c.notices =
             IF c.apiKey = <<>> THEN {ALERT_MISSING_KEY}
             ELSE IF c.clip = "read" /\ c.found # <<>> THEN {}
             ELSE IF c.clip = "read" THEN {ALERT_NO_IMAGE}
             ELSE {ALERT_CLIPBOARD_FAILED, ALERT_NO_IMAGE}
    ]_vars

\* nothing was ever saved, so both calls ran with the same (empty) credential
C10_Witness ==
  /\ nRuns = 2
  /\ storage = <<>>
  /\ run[2].pc = "done" /\ run[2].apiKey = <<>>
  /\ run[2].notices = {ALERT_MISSING_KEY}
  /\ tab = "settings" /\ ~loading /\ FieldsUnset

CallsInFlight == {r \in Runs : InFlight(run[r])}

\* C11: at most one call of the pipeline is in flight in any state; a call
\* starts only while loading is false and no other call is in flight, and a
\* click on the disabled trigger starts and queues nothing; switching to
\* Settings and back, or saving the credential, during a call does not
\* change this.
C11_OneRunInFlight ==
  [][ /\ Cardinality(CallsInFlight') <= 1
      /\ nRuns' # nRuns => (~loading /\ CallsInFlight = {})
      /\ loading => (nRuns' = nRuns /\ CallsInFlight' \subseteq CallsInFlight)
    ]_vars

\* a call is in flight, the user has been to Settings, saved and come back,
\* and has clicked the disabled trigger
C11_Witness ==
  /\ loading /\ CallsInFlight = {nRuns}
  /\ tab = "main" /\ alert = ALERT_SAVED
  /\ ignoredClick

\* C12: the three result fields fill in pipeline order: the translated text
\* is set only when the recognized text is, and the recognized text only
\* when the image is; a trigger clears all three at once, and while loading
\* is true every field that is set was written by the call in flight.
C12_FieldsInPipelineOrder ==
  [][ /\ wrote'.translated # 0 => wrote'.recognized # 0
      /\ wrote'.recognized # 0 => wrote'.image # 0
      /\ translatedText' # "" => recognizedText' # ""
      /\ recognizedText' # "" => imageSrc' # <<>>
      /\ (wrote'.image # 0) = (imageSrc' # <<>>)
      /\ (wrote'.recognized # 0) = (recognizedText' # "")
      /\ wrote'.translated = 0 => translatedText' = ""
      /\ nRuns' # nRuns => FieldsUnset'
      /\ loading' => \A w \in Writers' : w = nRuns' /\ run'[w].pc # "retired"
    ]_vars

\* a second call is in flight with the image and the recognized text set
C12_Witness ==
  /\ nRuns = 2 /\ loading /\ run[2].pc = "translate"
  /\ wrote = [image |-> 2, recognized |-> 2, translated |-> 0]
  /\ imageSrc # <<>> /\ recognizedText # "" /\ translatedText = ""

Capturing(c) == c.reads > 0 /\ c.clip \in {"", "read"} /\ c.pc \in {"clipboard", "getType"}
Recognizing(c) == c.pc = "encode" \/ (c.recReqs # <<>> /\ c.recResp = 0)
Translating(c) == c.trReqs # <<>> /\ c.trResp = 0
StagesInFlight(c) ==
  (IF Capturing(c) THEN 1 ELSE 0) + (IF Recognizing(c) THEN 1 ELSE 0)
    + (IF Translating(c) THEN 1 ELSE 0)

\* C13: the stages of one call run one after the other: the recognition
\* request is sent only once the capture has ended with an image and
\* carries the image this call captured (the one on display); the
\* translation request is sent only once the recognition call has answered
\* and carries the text this call stored in the recognized-text field; at
\* most one stage of a call is in flight at any time.
C13_StagesSequential ==
  [][ \A r \in Runs :
        LET c == run[r]  d == run'[r] IN
        /\ StagesInFlight(d) <= 1
        /\ Len(d.recReqs) > Len(c.recReqs) =>
             /\ ~Capturing(c) /\ c.clip = "read" /\ c.found # <<>>
             /\ c.imageBlob = BlobOf(c.found[1], c.found[2])
             /\ d.recReqs[Len(d.recReqs)][1] = c.imageBlob
             /\ wrote.image = r /\ ImageShown = c.imageBlob
             /\ c.recResp = 0 /\ c.trReqs = <<>>
        /\ Len(d.trReqs) > Len(c.trReqs) =>
             /\ c.recReqs # <<>> /\ ~Capturing(c)
             /\ d.recResp # 0
             /\ wrote'.recognized = r
             /\ d.trReqs[Len(d.trReqs)] = recognizedText'
             /\ recognizedText' = RecognitionResult(RecognitionResponses[d.recResp]).val
        /\ (d.trReqs # <<>> /\ ~Ended(d)) => d.trReqs[1] = recognizedText'
    ]_vars

\* the translation request of a call is in flight, after its capture and its
\* recognition have ended
C13_Witness ==
  /\ nRuns > 0 /\ Translating(run[nRuns]) /\ run[nRuns].pc = "translate"
  /\ run[nRuns].recReqs = <<<<ImageShown, run[nRuns].apiKey>>>>
  /\ run[nRuns].recResp # 0
  /\ run[nRuns].trReqs = <<"Hello">> /\ recognizedText = "Hello"

\* C14: a call sends at most one recognition request and at most one
\* translation request; a call that has returned after capturing an image
\* has sent exactly one of each; once a stage has answered (with a text, a
\* sentinel or a failure) its request is not sent again, and a call that
\* has ended sends nothing more.
C14_OneRequestPerStage ==
  [][ \A r \in Runs :
        LET c == run[r]  d == run'[r] IN
        /\ Len(d.recReqs) <= 1 /\ Len(d.trReqs) <= 1
        /\ (d.pc = "done" /\ d.imageBlob # NoBlob) =>
             (Len(d.recReqs) = 1 /\ Len(d.trReqs) = 1)
        /\ c.recResp # 0 => (d.recReqs = c.recReqs \/ d.pc = "retired")
        /\ c.trResp # 0 => (d.trReqs = c.trReqs \/ d.pc = "retired")
        /\ Ended(c) => (d = c \/ d.pc = "retired")
    ]_vars

\* a call has returned after both services answered with nothing usable
C14_Witness ==
  /\ nRuns > 0 /\ run[nRuns].pc = "done" /\ run[nRuns].imageBlob # NoBlob
  /\ recognizedText = NOT_RECOGNIZED /\ translatedText = TRANSLATION_FAILED
  /\ Len(run[nRuns].recReqs) = 1 /\ run[nRuns].trReqs = <<NOT_RECOGNIZED>>

ShortCircuited(c) ==
  c.pc = "done" /\ ALERT_MISSING_KEY \in c.notices /\ c.reads = 0 /\ NoRequests(c)

\* C15: the save action on input text x leaves the persisted and the
\* in-memory credential both equal to x without its leading and trailing
\* whitespace, shows the confirmation and switches to Main; nothing but a
\* save changes the in-memory credential afterwards, and a trigger
\* short-circuits with MissingCredential exactly when that credential is
\* empty.
C15_SaveThenGate ==
  [][ /\ HandleSaveKey =>
           /\ IsTrimOf(apiKey', apiKeyInput)
           /\ storage' = <<apiKey'>>
           /\ LoadGeminiApiKey' = apiKey'
           /\ alert' = ALERT_SAVED
           /\ tab' = "main"
      /\ (mounted /\ apiKey' # apiKey) => HandleSaveKey
      /\ nRuns' = nRuns + 1 =>
           /\ run'[nRuns'].apiKey = apiKey
           /\ ShortCircuited(run'[nRuns']) <=> apiKey = <<>>
           /\ (alert' = ALERT_MISSING_KEY /\ tab' = "settings") <=> apiKey = <<>>
    ]_vars

\* a call had a key and captured an image; then a blank input was saved and
\* the next trigger short-circuited
C15_Witness ==
  /\ objectUrls > 0
  /\ nRuns = 2 /\ ShortCircuited(run[2])
  /\ apiKeyInput = <<" ">> /\ apiKey = <<>> /\ storage = <<apiKey>>
  /\ tab = "settings" /\ alert = ALERT_MISSING_KEY

PipelineState == <<loading, imageSrc, recognizedText, translatedText, run, nRuns>>

\* C16: opening Settings, going Back to Main and saving the credential
\* leave loading, the image, the recognized text and the translated text
\* (and the position of any call in flight) as they were; opening Settings
\* and going Back also leave the persisted and the in-memory credential as
\* they were, and after mount only a save changes either.
C16_ViewActionsFrame ==
  [][ /\ (OpenSettings \/ BackToMain \/ HandleSaveKey) => UNCHANGED PipelineState
      /\ (tab' # tab /\ nRuns' = nRuns) => UNCHANGED PipelineState
      /\ (OpenSettings \/ BackToMain) => UNCHANGED <<storage, apiKey>>
      /\ (mounted /\ <<storage, apiKey>>' # <<storage, apiKey>>) => HandleSaveKey
    ]_vars

\* during a call that has set the recognized text, the user has saved another
\* credential and opened Settings again
C16_Witness ==
  /\ loading /\ nRuns > 0 /\ InFlight(run[nRuns])
  /\ imageSrc # <<>> /\ recognizedText # ""
  /\ alert = ALERT_SAVED /\ tab = "settings"
  /\ apiKey # run[nRuns].apiKey

IsImageTag(items, i, j) ==
  /\ i \in 1..Len(items) /\ j \in 1..Len(items[i])
  /\ items[i][j][1] = "image"

\* tag j of entry i is the first image tag, entries in order and tags in
\* order within each entry
FirstImageTag(items, i, j) ==
  /\ IsImageTag(items, i, j)
  /\ \A i2 \in 1..i : \A j2 \in 1..Len(items[i2]) :
       (i2 < i \/ j2 < j) => ~IsImageTag(items, i2, j2)

\* the call's capture has come to its result over a clipboard that was read
CaptureEnded(c) == c.clip = "read" /\ c.pc \notin {"clipboard", "getType"}

\* C17: over any clipboard that could be read, the capture returns the
\* payload of the first tag whose type starts with the image prefix
\* (entries in order, tags in order within an entry), returns Absent exactly
\* when no tag of any entry is an image type, has made one read, and never
\* returns the payload of a non-image tag.
C17_CaptureFirstImage ==
  \A r \in Runs :
    LET c == run[r] IN
    /\ c.reads <= 1
    /\ c.clip # "" => c.reads = 1
    /\ CaptureEnded(c) =>
         /\ (c.imageBlob = NoBlob) <=>
              ~(\E i \in 1..Len(c.items) : \E j \in 1..Len(c.items[i]) :
                  IsImageTag(c.items, i, j))
         /\ c.imageBlob # NoBlob =>
              /\ \E i \in 1..Len(c.items) : \E j \in 1..Len(c.items[i]) :
                   /\ FirstImageTag(c.items, i, j)
                   /\ c.imageBlob = BlobOf(i, c.items[i][j])
              /\ c.imageBlob[2][1] = "image"
              /\ ImageShown = c.imageBlob

\* the image is the second tag of the second entry, after two text tags
C17_Witness ==
  \E r \in Runs :
    /\ CaptureEnded(run[r])
    /\ run[r].items = << <<(<<"text", "plain">>)>>,
                         << <<"text", "plain">>, <<"image", "jpeg">> >> >>
    /\ run[r].imageBlob = BlobOf(2, <<"image", "jpeg">>)

\* C18: once the mount effect has run, the in-memory credential equals what
\* load() returns for the store, in every state, whatever triggers, view
\* switches, edits of the Settings input and saves have happened; an edit
\* of the input changes neither.
C18_MemoryEqualsStore ==
  [][ /\ mounted' => apiKey' = LoadGeminiApiKey'
      /\ (mounted /\ apiKeyInput' # apiKeyInput) => UNCHANGED <<storage, apiKey>>
    ]_vars

\* after a save and a trigger, the Settings input has been edited and not
\* saved: it differs from the credential, even once trimmed
C18_Witness ==
  /\ mounted /\ nRuns > 0 /\ alert = ALERT_SAVED /\ tab = "settings"
  /\ apiKey # <<>> /\ storage = <<apiKey>>
  /\ apiKeyInput # apiKey /\ ~IsTrimOf(apiKey, apiKeyInput)

SendsRequest(c, d) ==
  Len(d.recReqs) > Len(c.recReqs) \/ Len(d.trReqs) > Len(c.trReqs)

\* C19: whenever loading is false no call is in flight and no recognition
\* or translation request awaits its answer; requests are sent only while
\* loading is true; and from a state with loading false the image, the
\* recognized text and the translated text stay as they are until the next
\* trigger.
C19_QuietWhenNotLoading ==
  [][ /\ ~loading' => \A r \in Runs :
           ~InFlight(run'[r]) /\ ~Recognizing(run'[r]) /\ ~Translating(run'[r])
      /\ \A r \in Runs : SendsRequest(run[r], run'[r]) => (loading /\ loading')
      /\ (~loading /\ nRuns' = nRuns) =>
           UNCHANGED <<imageSrc, recognizedText, translatedText>>
    ]_vars

\* a call has returned with its three fields set, and the user has since
\* saved a credential and opened Settings
C19_Witness ==
  /\ ~loading /\ nRuns > 0 /\ run[nRuns].pc = "done"
  /\ wrote.translated = nRuns /\ translatedText = "NiHao"
  /\ alert = ALERT_SAVED /\ tab = "settings"

\* C20: a call works with the credential of the render it was triggered
\* from: a credential saved while the call is in flight does not reach it,
\* its recognition request carries the credential of trigger time, and a
\* call triggered after the save starts from the saved value.
C20_KeyFromTriggerTime ==
  [][ /\ nRuns' = nRuns + 1 => run'[nRuns'].apiKey = apiKey
      /\ \A r \in Runs :
           LET c == run[r]  d == run'[r] IN
           /\ (InFlight(c) /\ d.pc # "retired") => d.apiKey = c.apiKey
           /\ Len(d.recReqs) > Len(c.recReqs) =>
                d.recReqs[Len(d.recReqs)][2] = c.apiKey
           /\ d.recReqs # <<>> =>
                (d.recReqs[1][2] = d.apiKey /\ d.recReqs[1][2] # <<>>)
    ]_vars

\* another credential was saved during the call, whose recognition request
\* is out with the credential of trigger time
C20_Witness ==
  /\ nRuns > 0 /\ run[nRuns].pc = "recognize"
  /\ alert = ALERT_SAVED
  /\ apiKey # run[nRuns].apiKey /\ storage = <<apiKey>>
  /\ run[nRuns].recReqs = <<<<run[nRuns].imageBlob, run[nRuns].apiKey>>>>

====
